---- MODULE Spec2Model ----
(***************************************************************************)
(* Model of the sonar log decoder of src/app.js: parseSonarFile (the file  *)
(* header, the time base, the frame scan), parseFrame (one frame's fields, *)
(* unit conversion, the rejection rules, the bottom index) and getAverage  *)
(* (the density average).                                                  *)
(*                                                                         *)
(* The buffer is modelled at the granularity the decoder reads it: its     *)
(* byte length, the two 32-bit words of the first frame that may hold the  *)
(* time base, and the decoded fields of the frame that starts at the scan  *)
(* cursor.  The scanner never goes back, so the frame at the cursor is     *)
(* drawn when the cursor arrives at it.  Finite float32 values are         *)
(* integers (feet); NaN and the infinities are distinguished values; the   *)
(* arithmetic on finite values is exact (no float rounding).               *)
(***************************************************************************)
EXTENDS Integers, Sequences, FiniteSets, Bags, TLC

VARIABLES
    isSl3,            \* extension === 'sl3'
    byteLength,       \* arrayBuffer.byteLength
    firstFrameWords,  \* the uint32 words at bytes 8+40 and 8+60 of the buffer
    frame,            \* the fields of the buffer at [position, position + header)
    pc,               \* "start", "loop", "done" (returned), "error" (threw)
    error,            \* which read threw: "none", "header", "timebase", "signal"
    position,         \* let position
    startTime,        \* const startTime
    data,             \* const data = []
    iters,            \* loop bodies executed so far
    wellFormed,       \* every frame drawn so far declares frame_size >= header size
    full,             \* the records of the frames drawn so far, were none cut short
    array,            \* getAverage: argument array
    index,            \* getAverage: argument index
    count,            \* getAverage: argument count
    avgResult         \* getAverage: returned object

vars == <<isSl3, byteLength, firstFrameWords, frame, pc, error, position,
          startTime, data, iters, wellFormed, full, array, index, count, avgResult>>

parseVars == <<isSl3, byteLength, firstFrameWords, frame, pc, error, position,
               startTime, data, iters, wellFormed, full>>

avgVars == <<array, index, count, avgResult>>

---------------------------------------------------------------------------
(* Bounds of the model *)

MaxFrames == 2

MaxSignal == 1

MaxAvgLen == 12

---------------------------------------------------------------------------
(* float32 values and the double arithmetic parseFrame does on them *)

NaN == [k |-> "nan", v |-> 0]

PosInf == [k |-> "pinf", v |-> 0]

NegInf == [k |-> "ninf", v |-> 0]

Fin(n) == [k |-> "fin", v |-> n]

IsFin(a) == a.k = "fin"

\* a * c for a constant c > 0
FMulConst(a, c) == IF IsFin(a) THEN Fin(a.v * c) ELSE a

\* a - b
FSub(a, b) ==
    CASE a.k = "nan" \/ b.k = "nan" -> NaN
      [] a.k = "pinf" -> IF b.k = "pinf" THEN NaN ELSE PosInf
      [] a.k = "ninf" -> IF b.k = "ninf" THEN NaN ELSE NegInf
      [] b.k = "pinf" -> NegInf
      [] b.k = "ninf" -> PosInf
      [] OTHER -> Fin(a.v - b.v)

\* a <= b (false when either is NaN)
FLeq(a, b) ==
    /\ a.k # "nan"
    /\ b.k # "nan"
    /\ \/ a.k = "ninf"
       \/ b.k = "pinf"
       \/ IsFin(a) /\ IsFin(b) /\ a.v <= b.v

\* a < b (false when either is NaN)
FLess(a, b) ==
    /\ a.k # "nan"
    /\ b.k # "nan"
    /\ ~FLeq(b, a)

\* a + i for an integer i
FAddInt(a, i) == IF IsFin(a) THEN Fin(a.v + i) ELSE a

Sign(n) == IF n > 0 THEN 1 ELSE IF n < 0 THEN -1 ELSE 0

FSign(a) == CASE a.k = "pinf" -> 1 [] a.k = "ninf" -> -1 [] OTHER -> Sign(a.v)

FInf(s) == IF s > 0 THEN PosInf ELSE NegInf

\* Math.floor((len / d) * depth) for an integer len >= 0
FloorQuotientTimes(len, d, depth) ==
    CASE d.k = "nan" \/ depth.k = "nan" -> NaN
      [] ~IsFin(d) ->
            \* len / +-Infinity is a zero; 0 * Infinity is NaN
            IF IsFin(depth) THEN Fin(0) ELSE NaN
      [] d.v = 0 ->
            \* len / 0 is Infinity (len > 0) or NaN (len = 0)
            IF len = 0 \/ FSign(depth) = 0 THEN NaN ELSE FInf(FSign(depth))
      [] ~IsFin(depth) ->
            IF len = 0 THEN NaN ELSE FInf(FSign(depth) * Sign(d.v))
      [] OTHER ->
            IF d.v > 0 THEN Fin((len * depth.v) \div d.v)
                       ELSE Fin((0 - len * depth.v) \div (0 - d.v))

---------------------------------------------------------------------------
(* Layout of the two variants *)

fileHeaderSize == 8

frameHeaderSize(sl3) == IF sl3 THEN 168 ELSE 144

\* the time-base offsets of the two variants exchanged
firstFrameHardWareTimeOffset_Exchanged(sl3) == IF sl3 THEN 60 ELSE 40

firstFrameHardWareTimeOffset(sl3) == IF sl3 THEN 40 ELSE 60

\* byte offsets of the fields parseFrame and the scan read, from the frame start
FieldOffset(sl3) ==
    IF sl3
    THEN [frame_size |-> 8, survey_type |-> 12, min_range |-> 20, max_range |-> 24,
          water_depth |-> 48, x |-> 92, y |-> 96, seconds |-> 124]
    ELSE [frame_size |-> 28, survey_type |-> 32, min_range |-> 40, max_range |-> 44,
          water_depth |-> 64, x |-> 108, y |-> 112, seconds |-> 140]

FieldWidth ==
    [frame_size |-> 2, survey_type |-> 2, min_range |-> 4, max_range |-> 4,
     water_depth |-> 4, x |-> 4, y |-> 4, seconds |-> 4]

FieldNames == DOMAIN FieldWidth

\* a DataView read of `width` bytes at `offset` throws a RangeError unless it
\* lies inside the buffer
ReadInBounds(offset, width, len) == offset >= 0 /\ offset + width <= len

\* FEET_TO_METERS = 0.3048, in units of 1/10000 m
FEET_TO_METERS == 3048

---------------------------------------------------------------------------
(* getAverage *)

Undefined == -1

\* array[i] of a typed array (zero-based); undefined outside it and for NaN
ElementAt(arr, i) ==
    IF IsFin(i) /\ i.v >= 0 /\ i.v < Len(arr) THEN arr[i.v + 1] ELSE Undefined

\* The iterations 0 <= i < cnt of the for loop of getAverage that pass its
\* guard currentIndex < array.length
getAverageIterations(arr, idx, cnt) ==
    {i \in 0 .. cnt - 1 : FLess(FAddInt(idx, i), Fin(Len(arr)))}

\* sum after the loop: array[currentIndex] added up over those iterations
\* (as the size of the bag that holds iteration i array[currentIndex] times)
getAverageSum(arr, idx, cnt) ==
    LET taken == getAverageIterations(arr, idx, cnt)
    IN  BagCardinality([i \in {j \in taken : ElementAt(arr, FAddInt(idx, j)) > 0} |->
                           ElementAt(arr, FAddInt(idx, i))])

\* a getAverage that divides by the window size, not by the bytes read
getAverage_DividesByWindow(arr, idx, cnt) ==
    LET sum == getAverageSum(arr, idx, cnt)
        actualCount == Cardinality(getAverageIterations(arr, idx, cnt))
    IN  [sum |-> sum,
         avg |-> [num |-> sum, den |-> cnt],
         count |-> actualCount]

\* { sum, avg: actualCount > 0 ? sum / actualCount : 0, count: actualCount };
\* avg is the fraction num / den.  Called with idx >= 0 or NaN (line 172).
getAverage(arr, idx, cnt) ==
    LET sum == getAverageSum(arr, idx, cnt)
        actualCount == Cardinality(getAverageIterations(arr, idx, cnt))
    IN  [sum |-> sum,
         avg |-> IF actualCount > 0 THEN [num |-> sum, den |-> actualCount]
                                    ELSE [num |-> 0, den |-> 1],
         count |-> actualCount]

---------------------------------------------------------------------------
(* parseFrame *)

\* new Uint8Array(view.buffer, start, length) throws a RangeError for a
\* negative length and for a range that leaves the buffer
TypedArrayInBounds(start, length, len) ==
    length >= 0 /\ start <= len /\ start + length <= len

\* new Date(timestampInSeconds * 1000) as milliseconds since the epoch, for a
\* time base in seconds and an offset in milliseconds (secondsOffset * 1000)
Timestamp(base, offsetMs) == base * 1000 + offsetMs

\* if (frame.max_range <= frame.min_range) return null
DegenerateRange(minRange, maxRange) == FLeq(maxRange, minRange)

\* if (bottom_index < 0 || bottom_index >= signalData.length) return null
BottomIndexOutside(bottomIndex, length) ==
    FLess(bottomIndex, Fin(0)) \/ FLeq(Fin(length), bottomIndex)

\* if (frame.x === 0 || frame.y === 0) return null
NoCoordinates(x, y) == x = 0 \/ y = 0

\* parseFrame(view, position, isSl3, startTime) on the frame fields f found at
\* pos in a buffer of len bytes: [tag |-> "null"], a thrown RangeError
\* [tag |-> "throw"], or [tag |-> "frame"] with the frame object.
\* how parseFrame ends: "throw" (a RangeError), "null" (a rejected frame) or
\* "frame", and the bottom index it computed
parseFrameOutcome(f, pos, sl3, len) ==
    LET off == FieldOffset(sl3)
        inb(name) == ReadInBounds(pos + off[name], FieldWidth[name], len)
        header_size == frameHeaderSize(sl3)
        min_range == FMulConst(f.min_range, FEET_TO_METERS)
        max_range == FMulConst(f.max_range, FEET_TO_METERS)
        water_depth == FMulConst(f.water_depth, FEET_TO_METERS)
        signalDataStart == pos + header_size
        signalDataEnd == pos + f.frame_size
        length == signalDataEnd - signalDataStart
        bottom_index ==
            FloorQuotientTimes(length, FSub(max_range, min_range), water_depth)
    IN  CASE ~inb("survey_type") -> [tag |-> "throw", bottom_index |-> NaN]
          [] f.survey_type # 0 -> [tag |-> "null", bottom_index |-> NaN]
          [] \E n \in FieldNames : ~inb(n) -> [tag |-> "throw", bottom_index |-> NaN]
          [] NoCoordinates(f.x, f.y) -> [tag |-> "null", bottom_index |-> NaN]
          [] ~TypedArrayInBounds(signalDataStart, length, len) ->
                [tag |-> "throw", bottom_index |-> NaN]
          [] DegenerateRange(min_range, max_range) ->
                [tag |-> "null", bottom_index |-> NaN]
          [] BottomIndexOutside(bottom_index, length) ->
                [tag |-> "null", bottom_index |-> bottom_index]
          [] OTHER -> [tag |-> "frame", bottom_index |-> bottom_index]

\* the frame object parseFrame returns, lines 129-182
parseFrameObject(f, pos, sl3, base, bottom_index) ==
    LET signalData == f.signal
    IN  [tag |-> "frame",
         position |-> pos,
         x |-> f.x,
         y |-> f.y,
         min_range |-> FMulConst(f.min_range, FEET_TO_METERS),
         max_range |-> FMulConst(f.max_range, FEET_TO_METERS),
         water_depth |-> FMulConst(f.water_depth, FEET_TO_METERS),
         frame_size |-> f.frame_size,
         header_size |-> frameHeaderSize(sl3),
         timestamp |-> Timestamp(base, f.seconds),
         bottom_index |-> bottom_index,
         bottom_density_1 |-> ElementAt(signalData, bottom_index),
         bottom_density_10 |-> getAverage(signalData, bottom_index, 10).avg,
         bottom_density_100 |-> getAverage(signalData, bottom_index, 100).avg]

\* (the one-element sets bind the outcome and the index to their values, so
\* that they are computed once)
parseFrame(f, pos, sl3, base, len) ==
    CHOOSE r \in {IF outcome.tag # "frame"
                  THEN [tag |-> outcome.tag]
                  ELSE parseFrameObject(f, pos, sl3, base, outcome.bottom_index) :
                      outcome \in {parseFrameOutcome(f, pos, sl3, len)}} : TRUE

---------------------------------------------------------------------------
(* The inputs: buffers *)

\* the signal bytes of a frame with a signal run of n bytes
SignalPattern(n) == [i \in 1..n |-> (i * 97) % 256]

\* declared frame sizes: zero, smaller than either header, the largest uint16,
\* and a header followed by a signal run of 0..MaxSignal bytes
FrameSizes(sl3) ==
    {0, 100, 65535} \cup {frameHeaderSize(sl3) + n : n \in 0..MaxSignal}

SurveyTypes == {0, 1}

Coordinates == {<<0, 7>>, <<5, 0>>, <<5, -7>>}

SecondsOffsets == {1500, 5000}

TimeBases == {1700, 1800}

\* <<min_range, max_range, water_depth>> in feet, ordinary floats
OrdinaryRanges ==
    {<<Fin(0), mx, d>> : mx \in {Fin(0), Fin(100)},
                         d \in {Fin(-60), Fin(0), Fin(60), Fin(100)}}

\* and floats that are NaN or infinite
SpecialRanges ==
    {<<Fin(0), NaN, Fin(60)>>, <<NaN, Fin(100), Fin(60)>>, <<Fin(0), PosInf, Fin(60)>>,
     <<Fin(0), Fin(100), PosInf>>, <<Fin(0), Fin(100), NaN>>, <<Fin(0), PosInf, PosInf>>,
     <<NegInf, Fin(100), Fin(60)>>}

MakeFields(survey, c, r, sec) ==
    [survey_type |-> survey, x |-> c[1], y |-> c[2], min_range |-> r[1],
     max_range |-> r[2], water_depth |-> r[3], seconds |-> sec]

DefaultRange == <<Fin(0), Fin(100), Fin(60)>>

\* The fields of a frame but its size and signal.  Fields parseFrame never
\* looks at (those of another channel), or whose value cannot matter (the
\* ranges of a frame without coordinates), keep one value.
FieldSpace ==
    {MakeFields(1, <<5, -7>>, DefaultRange, 1500)}
    \cup {MakeFields(0, c, DefaultRange, 1500) : c \in Coordinates}
    \cup {MakeFields(0, <<5, -7>>, r, sec) : r \in OrdinaryRanges, sec \in SecondsOffsets}
    \cup {MakeFields(0, <<5, -7>>, r, 1500) : r \in SpecialRanges}

SignalLength(sl3, size) ==
    IF size >= frameHeaderSize(sl3) /\ size <= frameHeaderSize(sl3) + MaxSignal
    THEN size - frameHeaderSize(sl3) ELSE 0

MakeFrame(sl3, size, f) ==
    [frame_size |-> size, survey_type |-> f.survey_type, x |-> f.x, y |-> f.y,
     min_range |-> f.min_range, max_range |-> f.max_range,
     water_depth |-> f.water_depth, seconds |-> f.seconds,
     signal |-> SignalPattern(SignalLength(sl3, size))]

FrameSpaceSl3 == {MakeFrame(TRUE, size, f) : size \in FrameSizes(TRUE), f \in FieldSpace}

FrameSpaceSl2 == {MakeFrame(FALSE, size, f) : size \in FrameSizes(FALSE), f \in FieldSpace}

FrameSpace(sl3) == IF sl3 THEN FrameSpaceSl3 ELSE FrameSpaceSl2

\* no frame header fits at the cursor: nothing there is ever decoded
NoFrame ==
    [frame_size |-> 0, survey_type |-> 0, x |-> 0, y |-> 0, min_range |-> Fin(0),
     max_range |-> Fin(0), water_depth |-> Fin(0), seconds |-> 0, signal |-> <<>>]

\* the frames a buffer of len bytes can hold at pos
FramesAt(sl3, pos, len) ==
    IF pos + frameHeaderSize(sl3) <= len THEN FrameSpace(sl3) ELSE {NoFrame}

\* buffer lengths: every length up to one full frame, and k full frames
ByteLengths(sl3) ==
    (0 .. fileHeaderSize + frameHeaderSize(sl3) + MaxSignal)
    \cup {fileHeaderSize + k * (frameHeaderSize(sl3) + MaxSignal) : k \in 2..MaxFrames}

TimeWords == {w \in [{40, 60} -> TimeBases] : w[40] # w[60]}

\* getUint32(offset) of the first frame's candidate time-base words
WordAt(words, offset) == words[offset - fileHeaderSize]

---------------------------------------------------------------------------
(* parseSonarFile *)

NoResult == [sum |-> 0, avg |-> [num |-> 0, den |-> 1], count |-> -1]

\* a frame of a well-formed log: a whole header and a signal run
WellFormedFrame(sl3, f) ==
    f = NoFrame
    \/ /\ f.frame_size >= frameHeaderSize(sl3)
       /\ f.frame_size <= frameHeaderSize(sl3) + MaxSignal

Init ==
    /\ isSl3 \in BOOLEAN
    /\ byteLength \in ByteLengths(isSl3)
    /\ firstFrameWords \in TimeWords
    /\ frame \in FramesAt(isSl3, fileHeaderSize, byteLength)
    /\ pc = "start"
    /\ error = "none"
    /\ position = 0
    /\ startTime = 0
    /\ data = <<>>
    /\ iters = 0
    /\ wellFormed = WellFormedFrame(isSl3, frame)
    /\ full = <<>>
    /\ array = <<>>
    /\ index = Fin(0)
    /\ count = 0
    /\ avgResult = NoResult

\* a stop condition that lets an overrunning frame through
StopCondition_ZeroOnly(frameSize, pos, len) == frameSize = 0

\* if (frameSize === 0 || position + frameSize > arrayBuffer.byteLength) break
StopCondition(frameSize, pos, len) == frameSize = 0 \/ pos + frameSize > len

\* a cursor that does not move
Advance_Stays(pos, frameSize) == pos

\* position += frameSize
Advance(pos, frameSize) == pos + frameSize

\* if (frameData && frameData.water_depth > 0) data.push(frameData)
Push(records, frameData) ==
    IF frameData.tag = "frame" /\ FLess(Fin(0), frameData.water_depth)
    THEN Append(records, frameData)
    ELSE records

\* what a frame of a well-formed log contributes when the log is not cut short
FullPush(records, f, pos, sl3, base) ==
    IF WellFormedFrame(sl3, f) /\ f # NoFrame
    THEN Push(records, parseFrame(f, pos, sl3, base, pos + f.frame_size))
    ELSE records

\* lines 72-89: the file header, the empty-buffer return, the time base
ParseStart ==
    /\ pc = "start"
    /\ IF ~ReadInBounds(0, 2, byteLength) \/ ~ReadInBounds(2, 2, byteLength)
       THEN /\ pc' = "error"
            /\ error' = "header"
            /\ UNCHANGED <<position, startTime>>
       ELSE /\ position' = fileHeaderSize
            /\ IF position' >= byteLength
               THEN /\ pc' = "done"
                    /\ UNCHANGED <<error, startTime>>
               ELSE LET offset == position' + firstFrameHardWareTimeOffset(isSl3)
                    IN  IF ~ReadInBounds(offset, 4, byteLength)
                        THEN /\ pc' = "error"
                             /\ error' = "timebase"
                             /\ UNCHANGED startTime
                        ELSE /\ startTime' = WordAt(firstFrameWords, offset)
                             /\ pc' = "loop"
                             /\ UNCHANGED error
    /\ UNCHANGED <<isSl3, byteLength, firstFrameWords, frame, data, iters,
                   wellFormed, full>>
    /\ UNCHANGED avgVars

\* line 91 false, line 114: the cursor reached the end of the buffer
LoopExit ==
    /\ pc = "loop"
    /\ ~(position < byteLength)
    /\ pc' = "done"
    /\ UNCHANGED <<isSl3, byteLength, firstFrameWords, frame, error, position,
                   startTime, data, iters, wellFormed, full>>
    /\ UNCHANGED avgVars

\* lines 92-96: not enough bytes for a frame header
HeaderIncomplete ==
    /\ pc = "loop"
    /\ position < byteLength
    /\ position + frameHeaderSize(isSl3) > byteLength
    /\ pc' = "done"
    /\ iters' = iters + 1
    /\ UNCHANGED <<isSl3, byteLength, firstFrameWords, frame, error, position,
                   startTime, data, wellFormed, full>>
    /\ UNCHANGED avgVars

\* lines 98-104: a zero or overrunning frame size
InvalidFrameSize ==
    /\ pc = "loop"
    /\ position < byteLength
    /\ ~(position + frameHeaderSize(isSl3) > byteLength)
    /\ StopCondition(frame.frame_size, position, byteLength)
    /\ pc' = "done"
    /\ iters' = iters + 1
    /\ full' = FullPush(full, frame, position, isSl3, startTime)
    /\ UNCHANGED <<isSl3, byteLength, firstFrameWords, frame, error, position,
                   startTime, data, wellFormed>>
    /\ UNCHANGED avgVars

\* lines 106-111 when parseFrame throws
FrameThrows ==
    /\ pc = "loop"
    /\ position < byteLength
    /\ ~(position + frameHeaderSize(isSl3) > byteLength)
    /\ ~StopCondition(frame.frame_size, position, byteLength)
    /\ parseFrameOutcome(frame, position, isSl3, byteLength).tag = "throw"
    /\ pc' = "error"
    /\ error' = "signal"
    /\ iters' = iters + 1
    /\ UNCHANGED <<isSl3, byteLength, firstFrameWords, frame, position,
                   startTime, data, wellFormed, full>>
    /\ UNCHANGED avgVars

\* lines 106-111: decode the frame, keep its record, move to the next frame
FrameStep ==
    /\ pc = "loop"
    /\ position < byteLength
    /\ ~(position + frameHeaderSize(isSl3) > byteLength)
    /\ ~StopCondition(frame.frame_size, position, byteLength)
    /\ parseFrameOutcome(frame, position, isSl3, byteLength).tag # "throw"
    /\ LET frameData == parseFrame(frame, position, isSl3, startTime, byteLength)
       IN  /\ data' = Push(data, frameData)
           /\ full' = IF WellFormedFrame(isSl3, frame) THEN Push(full, frameData)
                                                      ELSE full
    /\ position' = Advance(position, frame.frame_size)
    /\ iters' = iters + 1
    /\ frame' \in FramesAt(isSl3, position', byteLength)
    /\ wellFormed' = (wellFormed /\ WellFormedFrame(isSl3, frame'))
    /\ UNCHANGED <<isSl3, byteLength, firstFrameWords, pc, error, startTime>>
    /\ UNCHANGED avgVars

Next ==
    \/ ParseStart
    \/ LoopExit
    \/ HeaderIncomplete
    \/ InvalidFrameSize
    \/ FrameThrows
    \/ FrameStep

Spec == Init /\ [][Next]_vars

\* the call runs to its end: nothing suspends it
FairSpec == Spec /\ WF_vars(Next)

---------------------------------------------------------------------------
(* getAverage on its own: every signal run, index and window *)

\* signal runs shorter than both windows, between them, and longer than both
AvgLengths == (1 .. MaxAvgLen) \cup {100 + MaxAvgLen}

AvgArrays == {[i \in 1..n |-> (i * m) % 256] : n \in AvgLengths, m \in {97, 128, 255}}

AvgCounts == {10, 100}

InitAvg ==
    /\ array \in AvgArrays
    /\ index \in {Fin(i) : i \in 0 .. Len(array) - 1}
    /\ count \in AvgCounts
    /\ avgResult = NoResult
    /\ isSl3 = FALSE
    /\ byteLength = 0
    /\ firstFrameWords = [w \in {40, 60} |-> 0]
    /\ frame = NoFrame
    /\ pc = "average"
    /\ error = "none"
    /\ position = 0
    /\ startTime = 0
    /\ data = <<>>
    /\ iters = 0
    /\ wellFormed = TRUE
    /\ full = <<>>

\* lines 185-196: one call of getAverage(array, index, count)
CallGetAverage ==
    /\ pc = "average"
    /\ avgResult = NoResult
    /\ avgResult' = getAverage(array, index, count)
    /\ UNCHANGED <<array, index, count>>
    /\ UNCHANGED parseVars

NextAvg == CallGetAverage

SpecAvg == InitAvg /\ [][NextAvg]_vars

---------------------------------------------------------------------------
(* Helpers of the properties *)

IsPrefix(a, b) == Len(a) <= Len(b) /\ SubSeq(b, 1, Len(a)) = a

Min(a, b) == IF a <= b THEN a ELSE b

Last(q) == q[Len(q)]

RECURSIVE SumRange(_, _, _)
\* arr[lo] + ... + arr[hi], one-based
SumRange(arr, lo, hi) ==
    IF lo > hi THEN 0
    ELSE IF lo = hi THEN arr[lo]
    ELSE LET mid == (lo + hi) \div 2
         IN  SumRange(arr, lo, mid) + SumRange(arr, mid + 1, hi)

Terminated == pc \in {"done", "error"}

\* the cursor is at a frame whose header lies inside the buffer
AtFrame ==
    /\ pc = "loop"
    /\ position < byteLength
    /\ position + (IF isSl3 THEN 168 ELSE 144) <= byteLength

\* the acceptance rules of a record, on the fields of the frame it comes from
Accepted(sl3, f) ==
    LET length == f.frame_size - (IF sl3 THEN 168 ELSE 144)
        bottom == FloorQuotientTimes(length,
                      FSub(FMulConst(f.max_range, 3048), FMulConst(f.min_range, 3048)),
                      FMulConst(f.water_depth, 3048))
    IN  /\ f.survey_type = 0
        /\ f.x # 0
        /\ f.y # 0
        /\ FLess(f.min_range, f.max_range)
        /\ IsFin(bottom)
        /\ 0 <= bottom.v
        /\ bottom.v < length
        /\ FLess(Fin(0), f.water_depth)

---------------------------------------------------------------------------
(* C1: a well-formed log cut at any byte length parses without a read       *)
(* outside the buffer and without an exception, to a prefix of the records  *)
(* of the whole log.                                                        *)
C1_TruncationSafe ==
    wellFormed =>
        /\ pc # "error"
        /\ pc = "done" => IsPrefix(data, full)

(* C2: a buffer that holds the file header and one frame header never makes *)
(* parseSonarFile throw, whatever follows the file header.                  *)
C2_NeverThrows ==
    byteLength >= 8 + (IF isSl3 THEN 168 ELSE 144) => pc # "error"

(* C3: a buffer of at least 8 bytes that is too short for the time-base     *)
(* field parses to the empty sequence, without an error.                    *)
C3_ShortBufferEmpty ==
    (/\ pc # "start"
     /\ byteLength >= 8
     /\ byteLength < 8 + (IF isSl3 THEN 40 ELSE 60) + 4)
        => (pc = "done" /\ data = <<>>)

(* C4: a buffer of fewer than 8 bytes makes parseSonarFile fail; it returns *)
(* no record sequence, not even the empty one.                              *)
C4_TooShortFails ==
    (pc # "start" /\ byteLength < 8) => pc = "error"

(* C5: at a frame that declares size 0 or overruns the buffer the scan      *)
(* stops without an error and decodes nothing further; what it returns is   *)
(* the records accepted from the frames before that position, in order.     *)
C5_StopReturnsAccepted ==
    /\ [][(AtFrame /\ (frame.frame_size = 0
                       \/ position + frame.frame_size > byteLength))
            => /\ pc' = "done"
               /\ error' = "none"
               /\ data' = data
               /\ position' = position]_vars
    /\ [][pc # "done"]_vars
    /\ [][\/ data' = data
          \/ /\ Len(data') = Len(data) + 1
             /\ SubSeq(data', 1, Len(data)) = data
             /\ Last(data').position = position
             /\ position' > position]_vars
    /\ [](\A i \in DOMAIN data :
            /\ data[i].position < position
            /\ \A j \in DOMAIN data : i < j => data[i].position < data[j].position)

C5_Witness ==
    /\ pc = "done"
    /\ position > 8
    /\ position + (IF isSl3 THEN 168 ELSE 144) <= byteLength
    /\ frame.frame_size # 0
    /\ position + frame.frame_size > byteLength
    /\ Len(data) = 1
    /\ data[1].position = 8

(* C6: a frame with a whole header and a size inside the buffer contributes *)
(* a record exactly when it passes the acceptance rules itself, and the     *)
(* scan goes on at position + frame_size either way.                        *)
C6_PerFrameRejection ==
    [][(/\ AtFrame
        /\ frame.frame_size >= (IF isSl3 THEN 168 ELSE 144)
        /\ position + frame.frame_size <= byteLength)
          => /\ pc' = "loop"
             /\ position' = position + frame.frame_size
             /\ IF Accepted(isSl3, frame)
                THEN /\ Len(data') = Len(data) + 1
                     /\ SubSeq(data', 1, Len(data)) = data
                     /\ Last(data').position = position
                ELSE data' = data]_vars

(* C7: every returned record has water_depth > 0, max_range > min_range,    *)
(* x and y nonzero, and a bottom index inside its frame's signal run, also  *)
(* when a range or the depth is NaN or infinite.                            *)
C7_RecordInvariants ==
    \A i \in DOMAIN data :
        LET r == data[i]
        IN  /\ FLess(Fin(0), r.water_depth)
            /\ FLess(r.min_range, r.max_range)
            /\ r.x # 0
            /\ r.y # 0
            /\ IsFin(r.bottom_index)
            /\ 0 <= r.bottom_index.v
            /\ r.bottom_index.v < r.frame_size - r.header_size
            /\ r.bottom_density_1 # Undefined

(* C8: getAverage sums the bytes signal[index .. min(index + k, L)) and     *)
(* divides by the number of bytes read, min(k, L - index): never by k, and  *)
(* never reading at or past L.                                              *)
C8_AverageWindow ==
    avgResult # NoResult =>
        LET n == Min(count, Len(array) - index.v)
            sum == SumRange(array, index.v + 1, index.v + n)
        IN  /\ avgResult.count = n
            /\ avgResult.sum = sum
            /\ avgResult.avg.den = n
            /\ avgResult.avg.num = sum

C8_Witness ==
    /\ avgResult # NoResult
    /\ count = 10
    /\ Len(array) > 10
    /\ index.v = Len(array) - 3
    /\ avgResult.count = 3

(* C9: the time base is read once, at byte 8 + 40 (sl3) or 8 + 60 (sl2) of  *)
(* the buffer, whether or not the first frame is accepted; a record's       *)
(* timestamp is that time base plus its own frame's millisecond offset,     *)
(* whatever the other frames hold.                                          *)
C9_TimeBaseOnce ==
    /\ [](pc = "loop" => startTime = firstFrameWords[IF isSl3 THEN 40 ELSE 60])
    /\ [][pc = "loop" => startTime' = startTime]_vars
    /\ [][Len(data') > Len(data) =>
            Last(data').timestamp
              = firstFrameWords[IF isSl3 THEN 40 ELSE 60] * 1000 + frame.seconds]_vars
    /\ [][SubSeq(data', 1, Len(data)) = data]_vars

C9_Witness ==
    /\ pc = "done"
    /\ Len(data) = 1
    /\ data[1].position = 8 + (IF isSl3 THEN 168 ELSE 144)
    /\ data[1].timestamp = firstFrameWords[IF isSl3 THEN 40 ELSE 60] * 1000 + 5000

====
